---- MODULE Spec2Model ----
(***************************************************************************)
(* GoFlow: the concurrent execution engine of the staged pipeline          *)
(* simulator (Simulator.Start, the stage workers, the channel semantics    *)
(* of the output buffers, cancellation and the termination protocol).      *)
(*                                                                         *)
(* The workers of one stage run the same code and hold no local data but   *)
(* their position (items are opaque), so a stage's workers are kept as a   *)
(* count per code location: at[s][l] is the number of workers of stage s   *)
(* that are at location l.                                                 *)
(***************************************************************************)
EXTENDS Integers, Sequences, FiniteSets, TLC

\* ---------------------------------------------------------------- bounds
MaxSize == 4        \* workers plus buffer slots of the whole pipeline
MaxGen == 2         \* the generators stop starting iterations at this many items
MaxRetry == 1       \* largest RetryCount of a stage
MaxBudget == 3      \* largest RetryCount of a processItem call taken alone
MaxClock == 4       \* readings of time.Now() in the runs of stageMetrics alone
MaxDeviations == 2  \* fields of a configuration that differ from a valid one

\* ------------------------------------------------------ program constants
MinStages == 3      \* Start refuses fewer stages; the pipeline modelled has exactly these

Stages == 1..MinStages
Producers == 1..(MinStages - 1)

isGenerator(s) == s = 1
isFinal(s) == s = MinStages

Locs == {"loop", "gen", "sel", "park", "proc", "spin", "send", "blk",
         "recOut", "recDrop", "term", "wgDone", "trackEnd", "done"}

VARIABLES
    RoutineNum,          \* Config.RoutineNum of each stage
    BufferSize,          \* Config.BufferSize of each stage (capacity of its output)
    DropOnBackpressure,  \* Config.DropOnBackpressure of each stage
    RetryCount,          \* Config.RetryCount of each stage
    WorkerFunc,          \* Config.WorkerFunc of each stage is not nil
    ItemGenerator,       \* Config.ItemGenerator of each stage is not nil
    InputRate,           \* Config.InputRate of each stage (-1 for any negative one)
    Duration,            \* Simulator.Duration (0, or 1 for any positive duration)
    cancelled,           \* ctx.Done() is closed
    at,                  \* at[s][l]: number of workers of stage s at location l
    len,                 \* len[s]: items in the buffer of stage s's output channel
    closes,              \* closes[s]: number of close(s.output) executed
    sem,                 \* sem[s]: tokens in the stage latch s.sem (capacity 1)
    generated, processed, output, dropped,   \* the stageMetrics counters
    stops,               \* stops[s]: number of metrics.stop() executed
    received,            \* received[s]: items the workers of s took from s.input
    opened, ended,       \* tracker: TrackGoroutineStart / TrackGoroutineEnd calls
    wg,                  \* Simulator.wg counter
    quit,                \* number of close(s.quit) executed
    mainpc,              \* position of the goroutine that called Start
    initIdx,             \* loop index of initializeStages
    coordpc,             \* position of the goroutine spawned by Start
    outcomes,            \* a processItem call taken alone: the results of the
                         \* successive WorkerFunc calls (TRUE: err == nil)
    result,              \* ... and what the call returned
    now,                 \* a stageMetrics taken alone: the reading of time.Now()
    endTime,             \* ... and the endTime field of each stage's metrics
    stages,              \* Simulator.stages: the names of the stages added
    lastErr,             \* what the last AddStage or refused Start returned
    choice,              \* the DataPresentationChoices given to Start
    writer               \* an AddStage called from another goroutine while
                         \* Start runs: "none", "waiting" in s.mu.Lock(), "done"

config == <<RoutineNum, BufferSize, DropOnBackpressure, RetryCount, WorkerFunc,
            ItemGenerator, InputRate, Duration>>
build == <<stages, lastErr>>
lock == <<choice, writer>>
unit == <<outcomes, result, now, endTime, build, lock>>
metrics == <<generated, processed, output, dropped>>
tracker == <<opened, ended>>
simvars == <<wg, quit, mainpc, initIdx, coordpc>>
vars == <<config, unit, cancelled, at, len, closes, sem, metrics, stops, received,
          tracker, simvars>>

\* ---------------------------------------------------------------- helpers
RECURSIVE SumTo(_, _)
SumTo(f, n) == IF n = 0 THEN 0 ELSE f[n] + SumTo(f, n - 1)

Total(f) == SumTo(f, MinStages)

Zero == [s \in Stages |-> 0]

closed(s) == closes[s] > 0

Move(a, s, from, to) == [a EXCEPT ![s][from] = @ - 1, ![s][to] = @ + 1]

MoveAll(a, s, from, to) ==
    [a EXCEPT ![s][from] = 0, ![s][to] = @ + a[s][from]]

\* where a worker of stage s continues once it has accounted an item
LoopHead(s) == IF isGenerator(s) THEN "loop" ELSE "sel"

\* ------------------------------------------------------------------ Init
\* The state after NewSimulator, NewStage and three successful AddStage calls,
\* before Start. The sink never sends, so its BufferSize, DropOnBackpressure
\* and RetryCount are left at zero values; RetryCount is read by interior
\* stages only. The interior stages have a WorkerFunc, the generator an
\* ItemGenerator, and the sink has no WorkerFunc.
NotCalled == [res |-> "none", calls |-> 0]

\* No goroutine has been spawned, no item produced.
Quiet ==
    /\ cancelled = FALSE
    /\ at = [s \in Stages |-> [l \in Locs |-> 0]]
    /\ len = Zero
    /\ closes = Zero
    /\ sem = Zero
    /\ generated = Zero
    /\ processed = Zero
    /\ output = Zero
    /\ dropped = Zero
    /\ stops = Zero
    /\ received = Zero
    /\ opened = Zero
    /\ ended = Zero
    /\ wg = 0
    /\ quit = 0
    /\ initIdx = 1
    /\ coordpc = "idle"

\* ... and Start has been called on three stages or more
Idle == Quiet /\ mainpc = "init"

\* Start(Console), and no other goroutine calls AddStage
NoWriter ==
    /\ choice = "Console"
    /\ writer = "none"

\* the functions taken alone are not exercised
UnitIdle ==
    /\ outcomes = << >>
    /\ result = NotCalled
    /\ now = 1
    /\ endTime = Zero
    /\ NoWriter

\* three stages have been added
Built ==
    /\ stages = <<"generator", "worker", "sink">>
    /\ lastErr = "nil"

Init ==
    /\ RoutineNum \in {f \in [Stages -> 1..MaxSize] : Total(f) <= MaxSize}
    /\ BufferSize \in {f \in [Stages -> 0..MaxSize] :
                          f[MinStages] = 0 /\ Total(RoutineNum) + Total(f) <= MaxSize}
    /\ DropOnBackpressure \in {f \in [Stages -> BOOLEAN] : ~f[MinStages]}
    /\ RetryCount \in {f \in [Stages -> 0..MaxRetry] :
                          \A s \in Stages : (isGenerator(s) \/ isFinal(s)) => f[s] = 0}
    /\ WorkerFunc = [s \in Stages |-> ~isGenerator(s) /\ ~isFinal(s)]
    /\ ItemGenerator = [s \in Stages |-> isGenerator(s)]
    /\ InputRate = Zero
    /\ Duration \in {0, 1}
    /\ Idle
    /\ UnitIdle
    /\ Built

\* ------------------------------------------------------ channel readiness
\* A receiver of stage s+1 is parked in its select on the output of s.
ParkedReceiver(s) == s < MinStages /\ at[s + 1]["park"] > 0

\* A send on s.output can complete now: the channel is closed (the send
\* panics), a receiver is parked, or the buffer has room.
SendReady(s) == closed(s) \/ ParkedReceiver(s) \/ len[s] < BufferSize[s]

\* A sender of stage s is inside the blocking send on an unbuffered output.
BlockedSender(s) == BufferSize[s] = 0 /\ at[s]["blk"] > 0

\* A receive from s.output can complete now: an item is buffered, a sender
\* is waiting, or the channel is closed (a sender waiting at the close
\* panics, it hands nothing over).
RecvReady(s) == len[s] > 0 \/ BlockedSender(s) \/ closed(s)

\* a sink that treats its items as an interior stage does
GotItemProcessed(r) == "proc"

\* location of a worker of stage r that has just received an item
GotItem(r) == IF isFinal(r) THEN "recDrop" ELSE "proc"

\* The send of a worker of stage s at location from completes: the item goes
\* to a parked receiver if there is one, else into the buffer.
Deliver(s, from) ==
    IF ParkedReceiver(s)
    THEN /\ at' = Move(Move(at, s, from, "recOut"), s + 1, "park", GotItem(s + 1))
         /\ received' = [received EXCEPT ![s + 1] = @ + 1]
         /\ len' = len
    ELSE /\ at' = Move(at, s, from, "recOut")
         /\ len' = [len EXCEPT ![s] = @ + 1]
         /\ received' = received

\* ------------------------------------------------------------ cancellation
\* cancel(): closes ctx.Done(); every worker parked in a select on it wakes
\* on that case and returns. A worker inside a plain send is not woken.
cancel ==
    /\ cancelled' = TRUE
    /\ at' = [s \in Stages |->
                [at[s] EXCEPT !["park"] = 0, !["term"] = @ + at[s]["park"]]]

\* a Stop that closes a done channel of its own: the second call panics
StopClosesTwice ==
    /\ IF cancelled
       THEN /\ UNCHANGED <<cancelled, at>>
            /\ mainpc' = "crashed"
       ELSE /\ cancel
            /\ mainpc' = mainpc
    /\ UNCHANGED <<config, unit, len, closes, sem, metrics, stops, received, tracker,
                   wg, quit, initIdx, coordpc>>

\* Simulator.Stop, called by the user's code at any time, any number of
\* times: cancel() does nothing on a context already cancelled.
Stop ==
    /\ IF cancelled THEN UNCHANGED <<cancelled, at>> ELSE cancel
    /\ UNCHANGED <<config, unit, len, closes, sem, metrics, stops, received, tracker, simvars>>

\* --------------------------------------------------------------- generator
\* a generator that starts an iteration whatever ctx.Done() says
generatorWorkerNoCheck(s) ==
    /\ isGenerator(s)
    /\ at[s]["loop"] > 0
    /\ generated[s] + at[s]["gen"] < MaxGen
    /\ at' = Move(at, s, "loop", "gen")
    /\ UNCHANGED <<config, unit, cancelled, len, closes, sem, metrics, stops, received,
                   tracker, simvars>>

\* generatorWorker: the loop head, a select on ctx.Done() with a default.
generatorWorker(s) ==
    /\ isGenerator(s)
    /\ at[s]["loop"] > 0
    /\ \/ /\ cancelled
          /\ at' = Move(at, s, "loop", "term")
       \/ /\ ~cancelled
          /\ generated[s] + at[s]["gen"] < MaxGen
          /\ at' = Move(at, s, "loop", "gen")
    /\ UNCHANGED <<config, unit, cancelled, len, closes, sem, metrics, stops, received,
                   tracker, simvars>>

\* handleGeneration up to the select: the sleep, ItemGenerator() and
\* recordGenerated().
handleGeneration(s) ==
    /\ isGenerator(s)
    /\ at[s]["gen"] > 0
    /\ generated' = [generated EXCEPT ![s] = @ + 1]
    /\ at' = Move(at, s, "gen", "send")
    /\ UNCHANGED <<config, unit, cancelled, len, closes, sem, processed, output, dropped,
                   stops, received, tracker, simvars>>

\* ------------------------------------------------------------------- send
\* The select of handleGeneration and of sendOutput (the same three cases):
\* ctx.Done(), the send, and the default that drops or goes to a plain send.
\* A send chosen on a closed channel panics and the deferred recover records
\* a drop.
onBackpressureBlocks(s) == "blk"

onBackpressureDrops(s) == "recDrop"

\* the default case of that select: if s.Config.DropOnBackpressure the item
\* is dropped, else the worker goes to the plain send
onBackpressure(s) == IF DropOnBackpressure[s] THEN "recDrop" ELSE "blk"

selectSend(s) ==
    /\ at[s]["send"] > 0
    /\ \/ /\ cancelled
          /\ at' = Move(at, s, "send", "recDrop")
          /\ UNCHANGED <<len, received>>
       \/ /\ SendReady(s)
          /\ IF closed(s)
             THEN /\ at' = Move(at, s, "send", "recDrop")
                  /\ UNCHANGED <<len, received>>
             ELSE Deliver(s, "send")
       \/ /\ ~cancelled
          /\ ~SendReady(s)
          /\ at' = Move(at, s, "send", onBackpressure(s))
          /\ UNCHANGED <<len, received>>
    /\ UNCHANGED <<config, unit, cancelled, closes, sem, metrics, stops, tracker, simvars>>

\* a plain send without the deferred recover: the panic of a send on a
\* closed channel unwinds to the worker's deferred stageTermination
blockingSendNoRecover(s) ==
    /\ at[s]["blk"] > 0
    /\ SendReady(s)
    /\ IF closed(s)
       THEN /\ at' = Move(at, s, "blk", "term")
            /\ UNCHANGED <<len, received>>
       ELSE Deliver(s, "blk")
    /\ UNCHANGED <<config, unit, cancelled, closes, sem, metrics, stops, tracker, simvars>>

\* The plain send of the default case (s.output <- item): it waits for a
\* slot or a receiver and for nothing else. On a closed channel it panics
\* and the deferred recover records a drop.
blockingSend(s) ==
    /\ at[s]["blk"] > 0
    /\ SendReady(s)
    /\ IF closed(s)
       THEN /\ at' = Move(at, s, "blk", "recDrop")
            /\ UNCHANGED <<len, received>>
       ELSE Deliver(s, "blk")
    /\ UNCHANGED <<config, unit, cancelled, closes, sem, metrics, stops, tracker, simvars>>

\* a recordOutput that loses the increment
recordOutputLost(s) ==
    /\ at[s]["recOut"] > 0
    /\ at' = Move(at, s, "recOut", LoopHead(s))
    /\ UNCHANGED <<config, unit, cancelled, len, closes, sem, metrics, stops, received,
                   tracker, simvars>>

\* s.metrics.recordOutput() after a completed send
recordOutput(s) ==
    /\ at[s]["recOut"] > 0
    /\ output' = [output EXCEPT ![s] = @ + 1]
    /\ at' = Move(at, s, "recOut", LoopHead(s))
    /\ UNCHANGED <<config, unit, cancelled, len, closes, sem, generated, processed, dropped,
                   stops, received, tracker, simvars>>

\* a recordDropped that loses the increment
recordDroppedLost(s) ==
    /\ at[s]["recDrop"] > 0
    /\ at' = Move(at, s, "recDrop", LoopHead(s))
    /\ UNCHANGED <<config, unit, cancelled, len, closes, sem, metrics, stops, received,
                   tracker, simvars>>

\* a recordDropped that takes the item back from the output count
recordDroppedTakesBack(s) ==
    /\ at[s]["recDrop"] > 0
    /\ dropped' = [dropped EXCEPT ![s] = @ + 1]
    /\ output' = [output EXCEPT ![s] = IF @ > 0 THEN @ - 1 ELSE @]
    /\ at' = Move(at, s, "recDrop", LoopHead(s))
    /\ UNCHANGED <<config, unit, cancelled, len, closes, sem, generated, processed,
                   stops, received, tracker, simvars>>

\* s.metrics.recordDropped(): on the ctx.Done() case, on backpressure, in the
\* deferred recover, on a processing error and for every item of the sink
recordDropped(s) ==
    /\ at[s]["recDrop"] > 0
    /\ dropped' = [dropped EXCEPT ![s] = @ + 1]
    /\ at' = Move(at, s, "recDrop", LoopHead(s))
    /\ UNCHANGED <<config, unit, cancelled, len, closes, sem, generated, processed, output,
                   stops, received, tracker, simvars>>

\* ----------------------------------------------------------------- worker
\* worker: the select on ctx.Done() and s.input (the output of stage s-1).
\* With no case ready the worker parks in the select.
worker(s) ==
    /\ ~isGenerator(s)
    /\ at[s]["sel"] > 0
    /\ \/ /\ cancelled
          /\ at' = Move(at, s, "sel", "term")
          /\ UNCHANGED <<len, received>>
       \/ /\ len[s - 1] > 0
          /\ len' = [len EXCEPT ![s - 1] = @ - 1]
          /\ received' = [received EXCEPT ![s] = @ + 1]
          /\ at' = Move(at, s, "sel", GotItem(s))
       \/ /\ len[s - 1] = 0
          /\ ~closed(s - 1)
          /\ BlockedSender(s - 1)
          /\ received' = [received EXCEPT ![s] = @ + 1]
          /\ at' = Move(Move(at, s - 1, "blk", "recOut"), s, "sel", GotItem(s))
          /\ len' = len
       \/ /\ len[s - 1] = 0
          /\ closed(s - 1)
          /\ at' = Move(at, s, "sel", "term")
          /\ UNCHANGED <<len, received>>
       \/ /\ ~cancelled
          /\ ~RecvReady(s - 1)
          /\ at' = Move(at, s, "sel", "park")
          /\ UNCHANGED <<len, received>>
    /\ UNCHANGED <<config, unit, cancelled, closes, sem, metrics, stops, tracker, simvars>>

\* processItem(item) on a WorkerFunc whose successive calls return the
\* results script[1], script[2], ... (TRUE: err == nil). The result is "ok",
\* "err" (the loop broke on attempt == RetryCount) or "spin" (every call of
\* the script failed and the loop has not ended).
RECURSIVE processLoop(_, _, _, _)
processLoop(retryCount, script, i, attempt) ==
    IF i > Len(script) THEN [res |-> "spin", calls |-> i - 1]
    ELSE IF script[i] THEN [res |-> "ok", calls |-> i]
    ELSE IF attempt + 1 = retryCount THEN [res |-> "err", calls |-> i]
    ELSE processLoop(retryCount, script, i + 1, attempt + 1)

processItem(retryCount, script) == processLoop(retryCount, script, 1, 0)

MaxAttempts == MaxRetry + 2

Scripts == [1..MaxAttempts -> BOOLEAN]

\* a worker that forgets the item whose processing failed
afterProcessForgetsError(res) ==
    CASE res = "ok" -> "send"
      [] res = "err" -> "sel"
      [] res = "spin" -> "spin"

\* worker, after processItem: an error goes to recordDropped and the next
\* iteration, a result to recordProcessed and sendOutput; a processItem
\* that has not returned keeps the worker.
afterProcess(res) ==
    CASE res = "ok" -> "send"
      [] res = "err" -> "recDrop"
      [] res = "spin" -> "spin"

\* a worker that sends its result without recordProcessed
processNoRecord(s) ==
    /\ at[s]["proc"] > 0
    /\ \E script \in Scripts :
         at' = Move(at, s, "proc", afterProcess(processItem(RetryCount[s], script).res))
    /\ UNCHANGED <<config, unit, cancelled, len, closes, sem, metrics, stops, received,
                   tracker, simvars>>

\* worker, an item received by an interior stage: processItem, then
\* recordDropped on an error, recordProcessed and sendOutput otherwise.
process(s) ==
    /\ at[s]["proc"] > 0
    /\ \E script \in Scripts :
         LET r == processItem(RetryCount[s], script).res IN
           /\ processed' = [processed EXCEPT ![s] = IF r = "ok" THEN @ + 1 ELSE @]
           /\ at' = Move(at, s, "proc", afterProcess(r))
    /\ UNCHANGED <<config, unit, cancelled, len, closes, sem, generated, output, dropped,
                   stops, received, tracker, simvars>>

\* ------------------------------------------------------------ termination
\* a latch that every worker can claim
semAlwaysFree(s) == TRUE

\* stageTermination: the non-blocking send on the latch s.sem (capacity 1)
\* succeeds.
semFree(s) == sem[s] = 0

\* stageTermination up to wg.Done(): the claimant of the latch closes
\* s.output (the receivers parked on it wake with ok == false and return)
\* and calls s.metrics.stop(); the other workers do neither.
stageTermination(s) ==
    /\ at[s]["term"] > 0
    /\ IF semFree(s)
       THEN /\ sem' = [sem EXCEPT ![s] = @ + 1]
            /\ closes' = [closes EXCEPT ![s] = @ + 1]
            /\ stops' = [stops EXCEPT ![s] = @ + 1]
            /\ at' = IF s < MinStages
                     THEN MoveAll(Move(at, s, "term", "wgDone"), s + 1, "park", "term")
                     ELSE Move(at, s, "term", "wgDone")
       ELSE /\ UNCHANGED <<sem, closes, stops>>
            /\ at' = Move(at, s, "term", "wgDone")
    /\ UNCHANGED <<config, unit, cancelled, len, metrics, received, tracker, simvars>>

\* wg.Done(); the deferred function of worker still has TrackGoroutineEnd
\* to run, generatorWorker has nothing left.
\* A Done that would take the counter below zero panics ("sync: negative
\* WaitGroup counter"), in a deferred call that nothing recovers: the process
\* is terminated.
wgDone(s) ==
    /\ at[s]["wgDone"] > 0
    /\ IF wg = 0
       THEN /\ mainpc' = "crashed"
            /\ UNCHANGED <<wg, at>>
       ELSE /\ wg' = wg - 1
            /\ at' = Move(at, s, "wgDone", IF isGenerator(s) THEN "done" ELSE "trackEnd")
            /\ mainpc' = mainpc
    /\ UNCHANGED <<config, unit, cancelled, len, closes, sem, metrics, stops, received,
                   tracker, quit, initIdx, coordpc>>

\* s.gm.TrackGoroutineEnd(id)
trackEnd(s) ==
    /\ at[s]["trackEnd"] > 0
    /\ ended' = [ended EXCEPT ![s] = @ + 1]
    /\ at' = Move(at, s, "trackEnd", "done")
    /\ UNCHANGED <<config, unit, cancelled, len, closes, sem, metrics, stops, received,
                   opened, simvars>>

\* -------------------------------------------------------------- simulator
\* validateConfig: the first check that fails gives the error, "nil" if none
\* does. The name and the context are valid in every pipeline modelled
\* (AddStage refuses an empty name, initializeStages sets the context just
\* before).
validateConfig(s) ==
    CASE ~isGenerator(s) /\ ~isFinal(s) /\ ~WorkerFunc[s] ->
             "worker function must be set for non-generator stages"
      [] isGenerator(s) /\ ~ItemGenerator[s] ->
             "ItemGenerator must be set for generator stage"
      [] RoutineNum[s] <= 0 -> "routine number must be greater than 0"
      [] BufferSize[s] < 0 -> "buffer size cannot be negative"
      [] isGenerator(s) /\ InputRate[s] < 0 ->
             "input rate cannot be negative for generator stages"
      [] RetryCount[s] < 0 -> "retry count cannot be negative"
      [] OTHER -> "nil"

\* a registration of one worker per stage, whatever its RoutineNum
wgAddOne(n) == wg + 1

\* s.wg.Add(n): the counter after it
wgAdd(n) == wg + n

\* Start calls initializeStages; one iteration of its loop: wg.Add(RoutineNum)
\* (which panics in Start's goroutine if the counter goes negative), the
\* wiring, validateConfig (on an error Start returns it) and initializeStage,
\* which spawns the stage's goroutines. A spawned worker first registers
\* with the tracker (TrackGoroutineStart), which nothing reads before the
\* reporter does.
initializeStages ==
    /\ mainpc = "init"
    /\ ended' = ended
    /\ IF wgAdd(RoutineNum[initIdx]) < 0
       THEN /\ mainpc' = "crashed"
            /\ UNCHANGED <<wg, at, opened, initIdx>>
       ELSE /\ wg' = wgAdd(RoutineNum[initIdx])
            /\ IF validateConfig(initIdx) # "nil"
               THEN /\ mainpc' = "failed"
                    /\ UNCHANGED <<at, opened, initIdx>>
               ELSE /\ at' = [at EXCEPT ![initIdx][LoopHead(initIdx)] = RoutineNum[initIdx]]
                    /\ opened' = [opened EXCEPT ![initIdx] =
                                      IF isGenerator(initIdx) THEN @ ELSE @ + RoutineNum[initIdx]]
                    /\ IF initIdx = MinStages
                       THEN /\ mainpc' = "go"
                            /\ initIdx' = initIdx
                       ELSE /\ mainpc' = "init"
                            /\ initIdx' = initIdx + 1
    /\ UNCHANGED <<config, unit, cancelled, len, closes, sem, metrics, stops, received,
                   quit, coordpc>>

\* a coordinator that sleeps and stops whatever the Duration
durationAlways == TRUE

\* the coordinator: if s.Duration > 0
durationSet == Duration > 0

\* Start: go func() { ... }(), then waitForStats blocks on the quit channel.
spawnCoordinator ==
    /\ mainpc = "go"
    /\ mainpc' = "waitQuit"
    /\ coordpc' = IF durationSet THEN "sleep" ELSE "wait"
    /\ UNCHANGED <<config, unit, cancelled, at, len, closes, sem, metrics, stops, received,
                   tracker, wg, quit, initIdx>>

\* the coordinator: time.Sleep(s.Duration); s.stop()
durationElapsed ==
    /\ coordpc = "sleep"
    /\ coordpc' = "wait"
    /\ IF cancelled THEN UNCHANGED <<cancelled, at>> ELSE cancel
    /\ UNCHANGED <<config, unit, len, closes, sem, metrics, stops, received, tracker,
                   wg, quit, mainpc, initIdx>>

\* a coordinator that does not wait for the workers
wgNotAwaited == TRUE

\* the coordinator: s.wg.Wait() returns
wgZero == wg = 0

wgWait ==
    /\ coordpc = "wait"
    /\ wgZero
    /\ coordpc' = "closeQuit"
    /\ UNCHANGED <<config, unit, cancelled, at, len, closes, sem, metrics, stops, received,
                   tracker, wg, quit, mainpc, initIdx>>

\* the coordinator: close(s.quit)
closeQuit ==
    /\ coordpc = "closeQuit"
    /\ quit' = quit + 1
    /\ coordpc' = "done"
    /\ UNCHANGED <<config, unit, cancelled, at, len, closes, sem, metrics, stops, received,
                   tracker, wg, mainpc, initIdx>>

\* a waitForStats that does not wait for the quit signal
quitNotAwaited == TRUE

\* waitForStats: <-s.done() returns once the quit channel is closed
quitClosed == quit > 0

waitForStats ==
    /\ mainpc = "waitQuit"
    /\ quitClosed
    /\ mainpc' = "report"
    /\ UNCHANGED <<config, unit, cancelled, at, len, closes, sem, metrics, stops, received,
                   tracker, wg, quit, initIdx, coordpc>>

\* the choices of DataPresentationChoices
Choices == {"DotFiles", "Console", "Nothing"}

\* waitForStats: WritePipelineDot and printStats begin with s.GetStages()
readsStages == choice \in {"DotFiles", "Console"}

\* GetStages: s.mu.RLock() can be taken. A sync.RWMutex makes every new
\* RLock wait once a Lock call is waiting, whoever holds the read lock.
rlockFree == writer # "waiting"

\* waitForStats: the reporter of the presentation choice runs, and Start
\* returns nil.
report ==
    /\ mainpc = "report"
    /\ readsStages => rlockFree
    /\ mainpc' = "returned"
    /\ UNCHANGED <<config, unit, cancelled, at, len, closes, sem, metrics, stops, received,
                   tracker, wg, quit, initIdx, coordpc>>

\* ------------------------------------------------------------------- Next
StageStep(s) ==
    \/ generatorWorker(s)
    \/ handleGeneration(s)
    \/ selectSend(s)
    \/ blockingSend(s)
    \/ recordOutput(s)
    \/ recordDropped(s)
    \/ worker(s)
    \/ process(s)
    \/ stageTermination(s)
    \/ wgDone(s)
    \/ trackEnd(s)

SimulatorStep ==
    \/ initializeStages
    \/ spawnCoordinator
    \/ durationElapsed
    \/ wgWait
    \/ closeQuit
    \/ waitForStats
    \/ report

Next ==
    \/ \E s \in Stages : StageStep(s)
    \/ SimulatorStep
    \/ Stop

Spec == Init /\ [][Next]_vars

\* Every step but the user's Stop: the steps of the goroutines of the program.
Progress == (\E s \in Stages : StageStep(s)) \/ SimulatorStep

\* ------------------------------------------------ processItem taken alone
\* Valid configurations of one worker per stage.
OneWorkerEach ==
    /\ RoutineNum = [s \in Stages |-> 1]
    /\ BufferSize = Zero
    /\ DropOnBackpressure = [s \in Stages |-> FALSE]
    /\ WorkerFunc = [s \in Stages |-> ~isGenerator(s) /\ ~isFinal(s)]
    /\ ItemGenerator = [s \in Stages |-> isGenerator(s)]
    /\ InputRate = Zero
    /\ Duration = 0

\* A pipeline of one worker per stage no worker of which has been spawned.
AtRest == OneWorkerEach /\ Idle

\* An interior stage with any RetryCount up to MaxBudget and a WorkerFunc
\* with any sequence of results.
RetryInit ==
    /\ AtRest
    /\ RetryCount \in {f \in [Stages -> 0..MaxBudget] :
                          \A s \in Stages : (isGenerator(s) \/ isFinal(s)) => f[s] = 0}
    /\ outcomes \in [1..(MaxBudget + 2) -> BOOLEAN]
    /\ result = NotCalled
    /\ now = 1
    /\ endTime = Zero
    /\ NoWriter
    /\ Built

\* worker: result, err := s.processItem(item), at the interior stage
processItemCall ==
    /\ result = NotCalled
    /\ \E s \in Stages :
         /\ ~isGenerator(s) /\ ~isFinal(s)
         /\ result' = processItem(RetryCount[s], outcomes)
    /\ UNCHANGED <<config, outcomes, now, endTime, build, lock, cancelled, at, len, closes, sem,
                   metrics, stops, received, tracker, simvars>>

RetryNext == processItemCall

RetrySpec == RetryInit /\ [][RetryNext]_vars

\* ----------------------------------------------- stageMetrics taken alone
\* stageMetrics.stop(): m.endTime = time.Now(), whatever m.endTime holds.
\* The zero time is 0 and the readings of the clock are positive.
stop(m, t) == t

MetricsInit ==
    /\ AtRest
    /\ RetryCount = Zero
    /\ outcomes = << >>
    /\ result = NotCalled
    /\ now = 1
    /\ endTime = Zero
    /\ NoWriter
    /\ Built

\* the clock advances between two calls
timePasses ==
    /\ now < MaxClock
    /\ now' = now + 1
    /\ UNCHANGED <<config, outcomes, result, endTime, build, lock, cancelled, at, len, closes, sem,
                   metrics, stops, received, tracker, simvars>>

\* a call of s.metrics.stop() on the metrics of stage s
stopCall(s) ==
    /\ endTime' = [endTime EXCEPT ![s] = stop(@, now)]
    /\ UNCHANGED <<config, outcomes, result, now, build, lock, cancelled, at, len, closes, sem,
                   metrics, stops, received, tracker, simvars>>

MetricsNext ==
    \/ timePasses
    \/ \E s \in Stages : stopCall(s)

MetricsSpec == MetricsInit /\ [][MetricsNext]_vars

\* ------------------------------------------- panics of the user's closures
\* The pipelines of Init with one worker per stage.
FaultInit == Init /\ Total(RoutineNum) = MinStages

\* the process has not been terminated by an unrecovered panic
Alive == mainpc # "crashed"

\* handleGeneration: s.Config.ItemGenerator() panics. recordGenerated() is not
\* reached; the deferred recover calls recordDropped() and handleGeneration
\* returns to the loop of generatorWorker. (Such iterations generate
\* nothing: they are bounded by the drops recorded.)
generatorPanics(s) ==
    /\ Alive
    /\ isGenerator(s)
    /\ at[s]["gen"] > 0
    /\ dropped[s] < MaxGen
    /\ at' = Move(at, s, "gen", "recDrop")
    /\ UNCHANGED <<config, unit, cancelled, len, closes, sem, metrics, stops, received,
                   tracker, simvars>>

\* processItem: s.Config.WorkerFunc(item) panics. Neither processItem nor
\* worker recovers: the deferred function of worker runs (stageTermination,
\* TrackGoroutineEnd) and the runtime terminates the process.
workerPanics(s) ==
    /\ Alive
    /\ at[s]["proc"] > 0
    /\ IF semFree(s)
       THEN /\ sem' = [sem EXCEPT ![s] = @ + 1]
            /\ closes' = [closes EXCEPT ![s] = @ + 1]
            /\ stops' = [stops EXCEPT ![s] = @ + 1]
            /\ at' = MoveAll(Move(at, s, "proc", "done"), s + 1, "park", "term")
       ELSE /\ UNCHANGED <<sem, closes, stops>>
            /\ at' = Move(at, s, "proc", "done")
    /\ wg' = wg - 1
    /\ ended' = [ended EXCEPT ![s] = @ + 1]
    /\ mainpc' = "crashed"
    /\ UNCHANGED <<config, unit, cancelled, len, metrics, received, opened, quit,
                   initIdx, coordpc>>

FaultNext ==
    \/ Alive /\ Next
    \/ \E s \in Stages : generatorPanics(s)
    \/ \E s \in Stages : workerPanics(s)

FaultSpec == FaultInit /\ [][FaultNext]_vars

\* ------------------------------------------------- building the pipeline
\* The stages handed to AddStage: a nil pointer, or a Stage with a name and a
\* Config that is nil or not.
StageNames == {"", "a", "b", "c", "d"}

StageArgs ==
    {[isNil |-> TRUE, Name |-> "", Config |-> FALSE]} \cup
    [isNil : {FALSE}, Name : StageNames, Config : BOOLEAN]

\* an AddStage that does not look at the names already added
nameTakenNever(name) == FALSE

\* AddStage: some existingStage.Name == stage.Name
nameTaken(name) == \E i \in 1..Len(stages) : stages[i] = name

\* AddStage: the error returned, "nil" if none
addStageErr(stage) ==
    CASE stage.isNil -> "stage cannot be nil"
      [] stage.Name = "" -> "stage name cannot be empty"
      [] nameTaken(stage.Name) -> "repeated name not allowed"
      [] ~stage.Config -> "must provide configuration"
      [] OTHER -> "nil"

\* No stage added, Start not called.
BuildInit ==
    /\ OneWorkerEach
    /\ RetryCount = Zero
    /\ Quiet
    /\ mainpc = "new"
    /\ UnitIdle
    /\ stages = << >>
    /\ lastErr = "nil"

\* AddStage(stage), before Start or after a Start that was refused (it
\* waits for the lock while Start runs)
AddStage(stage) ==
    /\ mainpc \in {"new", "failed"}
    /\ lastErr' = addStageErr(stage)
    /\ stages' = IF addStageErr(stage) = "nil" THEN Append(stages, stage.Name) ELSE stages
    /\ mainpc' = "new"
    /\ UNCHANGED <<config, outcomes, result, now, endTime, lock, cancelled, at, len, closes,
                   sem, metrics, stops, received, tracker, wg, quit, initIdx, coordpc>>

\* a Start that takes any number of stages
tooFewStagesNever == FALSE

\* Start: len(s.stages) < 3
tooFewStages == Len(stages) < MinStages

\* Start up to initializeStages: with too few stages it returns an error,
\* else it goes on to initialize them.
Start ==
    /\ mainpc \in {"new", "failed"}
    /\ IF tooFewStages
       THEN /\ mainpc' = "failed"
            /\ lastErr' = "no stages to run"
       ELSE /\ mainpc' = "init"
            /\ lastErr' = lastErr
    /\ UNCHANGED <<config, outcomes, result, now, endTime, stages, lock, cancelled, at, len,
                   closes, sem, metrics, stops, received, tracker, wg, quit, initIdx,
                   coordpc>>

BuildNext ==
    \/ \E stage \in StageArgs : AddStage(stage)
    \/ Start

BuildSpec == BuildInit /\ [][BuildNext]_vars

\* ------------------------------------------- configurations of any validity
\* the interior stages
hasWorker(s) == ~isGenerator(s) /\ ~isFinal(s)

\* The number of fields in which the configuration differs from a valid one
\* that has one worker per stage, no buffer, one retry, a WorkerFunc at the
\* interior stages only and an ItemGenerator at the generator only.
Deviations ==
    Cardinality({s \in Stages : RoutineNum[s] # 1})
    + Cardinality({s \in Stages : BufferSize[s] # 0})
    + Cardinality({s \in Stages : RetryCount[s] # 1})
    + Cardinality({s \in Stages : WorkerFunc[s] # hasWorker(s)})
    + Cardinality({s \in Stages : ItemGenerator[s] # isGenerator(s)})
    + Cardinality({s \in Stages : InputRate[s] # 0})

\* Three stages added, with fields that validateConfig accepts or refuses
\* (the Config of a Stage stays the caller's to change after NewStage).
ValidationInit ==
    /\ RoutineNum \in [Stages -> {-1, 0, 1}]
    /\ BufferSize \in [Stages -> {-1, 0, 1}]
    /\ DropOnBackpressure = [s \in Stages |-> FALSE]
    /\ RetryCount \in [Stages -> {-1, 1}]
    /\ WorkerFunc \in [Stages -> BOOLEAN]
    /\ ItemGenerator \in {f \in [Stages -> BOOLEAN] :
                             \A s \in Stages : ~isGenerator(s) => ~f[s]}
    /\ InputRate \in {f \in [Stages -> {-1, 0}] :
                         \A s \in Stages : ~isGenerator(s) => f[s] = 0}
    /\ Duration \in {0, 1}
    /\ Deviations <= MaxDeviations
    /\ Idle
    /\ UnitIdle
    /\ Built

ValidationNext == Alive /\ Next

ValidationSpec == ValidationInit /\ [][ValidationNext]_vars

\* ------------------------------------- AddStage from another goroutine
\* Start holds the read lock: s.mu.RLock() on entry, RUnlock deferred.
startHoldsLock == mainpc \in {"init", "go", "waitQuit", "report"}

\* One worker per stage, a buffer of one slot or none at the generator, any
\* presentation choice; Start has been called.
LockInit ==
    /\ RoutineNum = [s \in Stages |-> 1]
    /\ BufferSize \in {f \in [Stages -> {0, 1}] : \A s \in Stages : ~isGenerator(s) => f[s] = 0}
    /\ DropOnBackpressure = [s \in Stages |-> FALSE]
    /\ RetryCount = [s \in Stages |-> IF hasWorker(s) THEN 1 ELSE 0]
    /\ WorkerFunc = [s \in Stages |-> hasWorker(s)]
    /\ ItemGenerator = [s \in Stages |-> isGenerator(s)]
    /\ InputRate = Zero
    /\ Duration \in {0, 1}
    /\ Idle
    /\ outcomes = << >>
    /\ result = NotCalled
    /\ now = 1
    /\ endTime = Zero
    /\ Built
    /\ choice \in Choices
    /\ writer = "none"

\* AddStage called by another goroutine: it enters s.mu.Lock()
addStageLock ==
    /\ Alive
    /\ writer = "none"
    /\ writer' = "waiting"
    /\ UNCHANGED <<config, outcomes, result, now, endTime, build, choice, cancelled, at,
                   len, closes, sem, metrics, stops, received, tracker, simvars>>

\* ... s.mu.Lock() returns once no reader holds the lock; AddStage runs its
\* checks, appends the stage if they pass, and unlocks
addStageLocked(stage) ==
    /\ Alive
    /\ writer = "waiting"
    /\ ~startHoldsLock
    /\ writer' = "done"
    /\ lastErr' = addStageErr(stage)
    /\ stages' = IF addStageErr(stage) = "nil" THEN Append(stages, stage.Name) ELSE stages
    /\ UNCHANGED <<config, outcomes, result, now, endTime, choice, cancelled, at, len,
                   closes, sem, metrics, stops, received, tracker, simvars>>

LockNext ==
    \/ Next
    \/ addStageLock
    \/ \E stage \in StageArgs : addStageLocked(stage)

LockSpec == LockInit /\ [][LockNext]_vars

\* ------------------------------------------------ the snapshot of a stage
\* stageMetrics.getCommons: the dropped and output counters under their keys
\* (the throughput, a ratio to the elapsed time, is left out).
getCommons(s) == [dropped_items |-> dropped[s], output_items |-> output[s]]

\* stageMetrics.getEmpty: the map of a stage that "has not processed"
getEmpty == [processed_items |-> 0, dropped_items |-> 0, output_items |-> 0]

\* stageMetrics.GetStats: a stage that has generated is taken for a
\* generator; any other stage whose processed counter is 0 gets the empty
\* map (the drop_rate, a ratio of two counters, is left out).
GetStats(s) ==
    IF generated[s] > 0
    THEN [dropped_items |-> getCommons(s).dropped_items,
          output_items |-> getCommons(s).output_items,
          generated_items |-> generated[s]]
    ELSE IF processed[s] = 0
    THEN getEmpty
    ELSE [dropped_items |-> getCommons(s).dropped_items,
          output_items |-> getCommons(s).output_items,
          processed_items |-> processed[s]]

\* ----------------------------------------------------------------- claims
Returned == mainpc = "returned"

Interior == {s \in Stages : ~isGenerator(s) /\ ~isFinal(s)}

\* workers of stage s that have executed wg.Done()
Departed(s) == at[s]["trackEnd"] + at[s]["done"]

\* no processItem is looping on a WorkerFunc that keeps failing
NoSpin == \A s \in Stages : at[s]["spin"] = 0

\* C1: once cancellation has been signalled, every goroutine eventually exits
\* and Start returns. If that holds, the program cannot come to rest (no
\* goroutine able to take a step) after cancellation with Start not returned;
\* runs in which a WorkerFunc fails for ever are left aside.
C1_CancelledTerminates ==
    (cancelled /\ NoSpin) => (Returned \/ ENABLED Progress)

\* C2: a producer blocked on the send is released by a slot or by
\* cancellation: it never remains blocked on the send after cancellation.
\* If that holds, the program cannot come to rest after cancellation with a
\* producer still inside the send.
C2_BlockedSendReleased ==
    (cancelled /\ ~ENABLED Progress) => \A s \in Producers : at[s]["blk"] = 0

\* C3: after Start has returned, output + dropped = generated at the
\* generator stage.
C3_GeneratorAccounting ==
    Returned => \A s \in Stages :
        isGenerator(s) => output[s] + dropped[s] = generated[s]

C3_Witness ==
    /\ Returned
    /\ output[1] >= 1
    /\ dropped[1] >= 1
    /\ generated[1] >= 2

\* C4: after Start has returned, the previous stage's output equals this
\* stage's output + dropped, for every non-generator stage.
C4_OutputMatchesNextTotal ==
    Returned => \A s \in Stages :
        ~isGenerator(s) => output[s - 1] = output[s] + dropped[s]

\* C5: after Start has returned, processed <= output + dropped for every
\* non-generator stage.
C5_ProcessedBounded ==
    Returned => \A s \in Stages :
        ~isGenerator(s) => processed[s] <= output[s] + dropped[s]

C5_Witness ==
    /\ Returned
    /\ \E s \in Interior : processed[s] >= 2 /\ output[s] >= 1 /\ dropped[s] >= 1

\* C6: after Start has returned, for every interior stage processed is at
\* most the previous stage's output, and processed + dropped is at least the
\* number of items its workers received.
C6_InteriorAccounting ==
    Returned => \A s \in Interior :
        /\ processed[s] <= output[s - 1]
        /\ processed[s] + dropped[s] >= received[s]

C6_Witness ==
    /\ Returned
    /\ \E s \in Interior :
         /\ received[s] >= 2
         /\ processed[s] >= 1
         /\ processed[s] < received[s]

\* C7: each stage's output channel is closed at most once.
C7_ClosedAtMostOnce == \A s \in Stages : closes[s] <= 1

C7_Witness ==
    \E s \in Stages :
        /\ RoutineNum[s] >= 2
        /\ at[s]["wgDone"] + Departed(s) = RoutineNum[s]
        /\ closes[s] = 1

\* C8: when Start returns, every stage's output channel is closed and no
\* worker has a step left, its deferred exit actions included.
C8_NoWorkerLeft ==
    Returned => \A s \in Stages : closed(s) /\ at[s]["done"] = RoutineNum[s]

\* C9: after Start has returned no counter of any stage changes.
C9_CountersStable == [][Returned => metrics' = metrics]_vars

C9_Witness ==
    /\ Returned
    /\ generated[1] >= 1
    /\ \E s \in Interior : processed[s] >= 1 /\ output[s] >= 1
    /\ dropped[MinStages] >= 1
    /\ \E s \in Stages : at[s]["done"] < RoutineNum[s]

\* C10: the quit signal is raised at most once and only when every worker of
\* every stage has decremented the wait-group; the reporter runs and Start
\* returns only after it has been raised, so exactly once by then.
C10_QuitOnceAfterWorkers ==
    /\ quit <= 1
    /\ quit >= 1 => /\ mainpc # "init"
                    /\ wg = 0
                    /\ \A s \in Stages : Departed(s) = RoutineNum[s]
    /\ mainpc \in {"report", "returned"} => quit = 1

C10_Witness ==
    /\ mainpc = "report"
    /\ quit = 1
    /\ \E s \in Stages : RoutineNum[s] >= 2

\* the processItem call taken alone has returned (or is known not to return)
Called == result # NotCalled

\* the first n calls of the WorkerFunc all return an error
AllFailed(n) == \A i \in 1..n : ~outcomes[i]

\* C11: with retry budget R, processing one item calls WorkerFunc at most
\* R + 1 times, stops at the first success, and fails (the item is dropped)
\* only when all of the R + 1 attempts failed; fail, fail, succeed is
\* processed when R = 2.
C11_RetryBudget ==
    Called => \A s \in Interior :
        /\ result.res \in {"ok", "err"}
        /\ result.calls <= RetryCount[s] + 1
        /\ result.res = "ok" =>
               outcomes[result.calls] /\ AllFailed(result.calls - 1)
        /\ result.res = "err" <=> AllFailed(RetryCount[s] + 1)

\* C12: with RetryCount = 0, an item whose first attempt fails is dropped
\* after that single attempt: processItem returns the error without calling
\* WorkerFunc again.
C12_ZeroBudgetDropsAtOnce ==
    \A s \in Interior :
        (Called /\ RetryCount[s] = 0 /\ ~outcomes[1]) =>
            (result.res = "err" /\ result.calls = 1)

\* C13: a panic of WorkerFunc is absorbed: the worker continues and neither
\* another worker nor the simulator is affected, so the process is never
\* terminated by it.
C13_WorkerPanicAbsorbed == mainpc # "crashed"

\* C14: with an ItemGenerator that may panic (the item is then dropped and
\* the generator continues), generated = output + dropped still holds at the
\* generator once Start has returned.
C14_GeneratorPanicAccounted ==
    Returned => \A s \in Stages :
        isGenerator(s) => generated[s] = output[s] + dropped[s]

\* workers of stage s inside a send on s.output
Sending(s) == at[s]["send"] + at[s]["blk"]

\* C15: a send that ends on an output channel its stage has closed is
\* absorbed: the sender goes to the recovery path and to nothing else,
\* nothing is counted yet; the recovery path then counts exactly one drop
\* and no output, and the worker is back at the head of its loop.
C15_SendAfterCloseAbsorbed ==
    [][\A s \in Producers :
          /\ (closed(s) /\ Sending(s)' < Sending(s)) =>
                /\ at'[s]["recDrop"] = at[s]["recDrop"] + 1
                /\ at'[s]["recOut"] = at[s]["recOut"]
                /\ at'[s]["term"] = at[s]["term"]
                /\ metrics' = metrics
          /\ at'[s]["recDrop"] < at[s]["recDrop"] =>
                /\ dropped'[s] = dropped[s] + 1
                /\ output' = output
                /\ at'[s][LoopHead(s)] = at[s][LoopHead(s)] + 1]_vars

C15_Witness ==
    \E s \in Producers :
        /\ RoutineNum[s] >= 2
        /\ closed(s)
        /\ ~DropOnBackpressure[s]
        /\ Sending(s) = 0
        /\ at[s]["recDrop"] >= 1

\* a slot of the buffer of s.output is free or a receiver waits on it
SlotAvailable(s) == ParkedReceiver(s) \/ len[s] < BufferSize[s]

\* a worker of stage s goes from the send to recordOutput in this step
SendRecordsOutput(s) == at'[s]["recOut"] > at[s]["recOut"]

\* C16, as stated: with DropOnBackpressure a producer never blocks on its
\* output; each send attempt ends in one step, on recordOutput if a slot or
\* a waiting receiver was available and on recordDropped otherwise.
C16_DropNeverBlocks ==
    [][\A s \in Producers : DropOnBackpressure[s] =>
          /\ at'[s]["blk"] = 0
          /\ at'[s]["send"] < at[s]["send"] =>
                /\ at'[s]["recOut"] + at'[s]["recDrop"]
                       = at[s]["recOut"] + at[s]["recDrop"] + 1
                /\ SendRecordsOutput(s) <=> SlotAvailable(s)]_vars

\* C16, amended: with DropOnBackpressure a producer never blocks on its
\* output; each send attempt ends in one step, on recordOutput only if a
\* slot or a waiting receiver was available and on recordDropped otherwise;
\* with one available it ends on recordOutput unless cancellation has been
\* signalled or the channel closed.
C16_DropNeverBlocksUnlessCancelled ==
    [][\A s \in Producers : DropOnBackpressure[s] =>
          /\ at'[s]["blk"] = 0
          /\ at'[s]["send"] < at[s]["send"] =>
                /\ at'[s]["recOut"] + at'[s]["recDrop"]
                       = at[s]["recOut"] + at[s]["recDrop"] + 1
                /\ SendRecordsOutput(s) => SlotAvailable(s)
                /\ (SlotAvailable(s) /\ ~cancelled /\ ~closed(s))
                       => SendRecordsOutput(s)]_vars

C16_Witness ==
    \E s \in Producers :
        /\ DropOnBackpressure[s]
        /\ ~cancelled
        /\ output[s] >= 1
        /\ dropped[s] >= 1

\* C17: the sink never sends and never calls a worker function: its workers
\* are never in processItem nor in a send, its output and processed counters
\* stay 0, every item it received is counted dropped exactly once (or is
\* about to be); a sink without WorkerFunc passes validateConfig.
C17_SinkOnlyDrops ==
    \A s \in Stages : isFinal(s) =>
        /\ at[s]["proc"] + at[s]["spin"] = 0
        /\ at[s]["send"] + at[s]["blk"] + at[s]["recOut"] = 0
        /\ output[s] = 0
        /\ processed[s] = 0
        /\ dropped[s] + at[s]["recDrop"] = received[s]
        /\ ~WorkerFunc[s] => (validateConfig(s) = "nil" /\ mainpc # "failed")

C17_Witness ==
    \E s \in Stages :
        /\ isFinal(s)
        /\ ~WorkerFunc[s]
        /\ Returned
        /\ received[s] >= 2
        /\ dropped[s] = received[s]

\* C18: cancellation is never un-signalled, and a Stop or the Duration
\* timer's stop on a simulator already cancelled changes nothing (the
\* timer's goroutine moves on): any number of signals leaves the state one
\* signal leaves.
C18_StopIdempotent ==
    [][/\ cancelled => cancelled'
       /\ (cancelled /\ Stop) => UNCHANGED vars
       /\ (cancelled /\ durationElapsed) =>
              UNCHANGED <<config, unit, cancelled, at, len, closes, sem, metrics,
                          stops, received, tracker, wg, quit, mainpc, initIdx>>]_vars

C18_Witness ==
    /\ cancelled
    /\ coordpc = "sleep"
    /\ \E s \in Stages : at[s]["term"] > 0

\* C19: with Duration = 0 only Stop signals cancellation, and Start has
\* returned only if it was signalled; with Duration > 0 the coordinator has
\* signalled it when it goes on from its sleep to wait for the workers.
C19_DurationZeroNeedsStop ==
    [][/\ (Duration = 0 /\ ~cancelled /\ cancelled') => Stop
       /\ (Duration = 0) => coordpc' # "sleep"
       /\ Returned' => cancelled'
       /\ (Duration > 0 /\ coordpc = "sleep" /\ coordpc' # "sleep") => cancelled'
       /\ (Duration > 0 /\ coordpc = "idle" /\ coordpc' # "idle") => coordpc' = "sleep"
      ]_vars

C19_Witness ==
    /\ Duration = 0
    /\ Returned
    /\ generated[1] >= 1

\* C20: once endTime has been set by a first stop(), a later stop() leaves
\* it unchanged.
C20_StopLatchesEndTime ==
    [][\A s \in Stages : endTime[s] # 0 => endTime'[s] = endTime[s]]_vars

\* C21: over every step, no counter of any stage decreases.
C21_CountersMonotonic ==
    [][\A s \in Stages :
          /\ generated'[s] >= generated[s]
          /\ processed'[s] >= processed[s]
          /\ output'[s] >= output[s]
          /\ dropped'[s] >= dropped[s]]_vars

C21_Witness ==
    /\ generated[1] >= 2
    /\ output[1] >= 1
    /\ dropped[1] >= 1
    /\ \E s \in Interior : processed[s] >= 1

\* what the claim says AddStage refuses
Refused(stage) ==
    \/ stage.isNil
    \/ stage.Name = ""
    \/ \E i \in 1..Len(stages) : stages[i] = stage.Name
    \/ ~stage.Config

\* C22: AddStage returns an error and leaves the stage list as it is for a
\* nil stage, an empty name, a name already in the list or a nil Config;
\* otherwise it returns nil and appends the stage; the names in the list stay
\* non-empty and pairwise distinct.
C22_AddStageValidates ==
    [][/\ \A stage \in StageArgs : AddStage(stage) =>
              IF Refused(stage)
              THEN lastErr' # "nil" /\ stages' = stages
              ELSE lastErr' = "nil" /\ stages' = Append(stages, stage.Name)
       /\ \A i, j \in 1..Len(stages') :
              stages'[i] # "" /\ (i # j => stages'[i] # stages'[j])]_vars

C22_Witness ==
    /\ Len(stages) >= 2
    /\ lastErr = "repeated name not allowed"

\* C23: a Start on fewer than three stages returns an error and changes
\* nothing else: nothing is registered in the wait-group, no worker is
\* spawned; initialization is only entered with three stages or more.
C23_StartNeedsThreeStages ==
    [][/\ (Start /\ Len(stages) < MinStages) =>
              /\ mainpc' = "failed"
              /\ lastErr' # "nil"
              /\ UNCHANGED <<config, stages, cancelled, at, len, closes, sem, metrics,
                             stops, received, tracker, wg, quit, initIdx, coordpc>>
       /\ mainpc' = "init" => Len(stages') >= MinStages]_vars

C23_Witness ==
    /\ mainpc = "failed"
    /\ Len(stages) = MinStages - 1
    /\ wg = 0

\* initializeStages has ended, by a return or by a panic
StartDone == mainpc # "init"

\* the generator has no ItemGenerator or an interior stage no WorkerFunc
MissingFunction ==
    \E s \in Stages : \/ (isGenerator(s) /\ ~ItemGenerator[s])
                       \/ (hasWorker(s) /\ ~WorkerFunc[s])

\* the numbers of every configuration are in range
NumbersValid ==
    \A s \in Stages :
        /\ RoutineNum[s] >= 1
        /\ BufferSize[s] >= 0
        /\ RetryCount[s] >= 0
        /\ InputRate[s] >= 0

\* C24: Start returns an error when the generator has no ItemGenerator and
\* when an interior stage has no WorkerFunc; a configuration whose only
\* missing functions are the WorkerFunc of the generator or of the sink is
\* not refused.
C24_MissingFunctions ==
    StartDone =>
        /\ MissingFunction => mainpc = "failed"
        /\ (~MissingFunction /\ NumbersValid) => mainpc # "failed"

\* C25: Start returns an error, and does not crash, when a stage has
\* RoutineNum < 1, BufferSize < 0, RetryCount < 0 or, at the generator,
\* InputRate < 0.
C25_BadNumbersRefused ==
    StartDone =>
        ((\E s \in Stages : \/ RoutineNum[s] < 1
                              \/ BufferSize[s] < 0
                              \/ RetryCount[s] < 0
                              \/ (isGenerator(s) /\ InputRate[s] < 0))
            => mainpc = "failed")

RECURSIVE CountAt(_, _)
CountAt(s, locs) ==
    IF locs = {} THEN 0
    ELSE LET l == CHOOSE x \in locs : TRUE IN at[s][l] + CountAt(s, locs \ {l})

\* the workers of stage s that have been spawned
Workers(s) == CountAt(s, Locs)

\* C26: when Start has returned a configuration error, no worker of any
\* stage has been spawned.
C26_NoWorkerOnError ==
    mainpc = "failed" => \A s \in Stages : Workers(s) = 0

\* C27: every worker of every stage, the generator's included, is opened in
\* its stage's tracker once and closed once, and all are closed when the
\* quit signal is raised.
C27_TrackerBalanced ==
    /\ \A s \in Stages : (opened[s] = Workers(s) /\ ended[s] <= opened[s])
    /\ quit >= 1 =>
          \A s \in Stages : (opened[s] = RoutineNum[s] /\ ended[s] = opened[s])

\* items of stage s whose processItem returned an error
Failures(s) == received[s] - processed[s] - at[s]["proc"] - at[s]["spin"]

\* C28: an interior stage with DropOnBackpressure = false whose WorkerFunc
\* has not failed records no drop, and has none to record, as long as
\* cancellation has not been signalled.
C28_NoDropBeforeCancel ==
    \A s \in Interior :
        (~DropOnBackpressure[s] /\ Failures(s) = 0 /\ ~cancelled) =>
            (dropped[s] = 0 /\ at[s]["recDrop"] = 0)

C28_Witness ==
    \E s \in Interior :
        /\ ~DropOnBackpressure[s]
        /\ ~cancelled
        /\ Failures(s) = 0
        /\ processed[s] >= 2
        /\ at[s]["blk"] >= 1

\* workers of stage s spawned that have not executed wg.Done()
Pending(s) == Workers(s) - Departed(s)

PendingAll == [s \in Stages |-> Pending(s)]

\* C29: of the workers of a stage that exit, exactly the first to claim the
\* latch closes the output and calls metrics.stop(), once each; every worker
\* decrements the wait-group once, so the counter is the number of spawned
\* workers that have not done so, and after initialization it is zero
\* exactly when all workers have.
C29_LatchAndWaitGroup ==
    /\ \A s \in Stages :
          /\ sem[s] <= 1
          /\ closes[s] = sem[s]
          /\ stops[s] = sem[s]
          /\ (at[s]["wgDone"] + Departed(s) > 0) => sem[s] = 1
    /\ wg = Total(PendingAll)
    /\ mainpc # "init" => (wg = 0 <=> \A s \in Stages : Departed(s) = RoutineNum[s])

C29_Witness ==
    /\ wg = 0
    /\ quit = 0
    /\ mainpc = "waitQuit"
    /\ \E s \in Stages : (RoutineNum[s] >= 2 /\ closes[s] = 1)

C32_NoCountAfterStop ==
    [][\A s \in Stages : stops[s] > 0 =>
          /\ generated'[s] = generated[s]
          /\ processed'[s] = processed[s]
          /\ output'[s] = output[s]
          /\ dropped'[s] = dropped[s]]_vars

\* C33: in every reachable state the snapshot of every stage gives the
\* stage's dropped counter as dropped_items and its output counter as
\* output_items.
C33_SnapshotMatchesCounters ==
    \A s \in Stages :
        /\ GetStats(s).dropped_items = dropped[s]
        /\ GetStats(s).output_items = output[s]

\* workers of stage s that hold an item whose send has not been accounted
Holding(s) == Sending(s) + at[s]["recOut"] + at[s]["recDrop"]

\* C34: at the generator, generated - (output + dropped) is the number of
\* its workers that hold a generated item not yet accounted, which lies
\* between 0 and RoutineNum (ItemGenerator does not panic).
C34_GeneratorInFlight ==
    \A s \in Stages : isGenerator(s) =>
        /\ generated[s] - (output[s] + dropped[s]) = Holding(s)
        /\ generated[s] - (output[s] + dropped[s]) >= 0
        /\ generated[s] - (output[s] + dropped[s]) <= RoutineNum[s]

C34_Witness ==
    \E s \in Stages :
        /\ isGenerator(s)
        /\ RoutineNum[s] >= 2
        /\ generated[s] - (output[s] + dropped[s]) = RoutineNum[s]
        /\ at[s]["blk"] >= 1
        /\ at[s]["recDrop"] >= 1

C36_ItemConservation ==
    Returned => generated[1] = Total(dropped) + Total(len)

C36_Witness ==
    /\ Returned
    /\ generated[1] >= 2
    /\ Total(len) >= 1
    /\ Total(dropped) >= 1
    /\ dropped[1] = 0

\* send-time drops of stage s, recorded or about to be: all its drops but
\* those of the items whose processItem returned an error
SendDrops(s) == dropped[s] + at[s]["recDrop"] - Failures(s)

\* C37: at every interior stage output <= processed; processed - output is
\* the number of send-time drops plus the workers inside a send or about to
\* record its output, so it is at most the send-time drops recorded plus
\* RoutineNum.
C37_OutputAtMostProcessed ==
    \A s \in Interior :
        /\ output[s] <= processed[s]
        /\ SendDrops(s) >= 0
        /\ processed[s] - output[s] = SendDrops(s) + Sending(s) + at[s]["recOut"]
        /\ Holding(s) <= RoutineNum[s]
        /\ processed[s] - output[s] <= dropped[s] + RoutineNum[s]

C37_Witness ==
    \E s \in Interior :
        /\ processed[s] >= 2
        /\ output[s] = 0
        /\ Failures(s) = 0
        /\ dropped[s] >= 1
        /\ Sending(s) >= 1

\* C38: once cancellation has been signalled no generator worker starts a
\* generation: generated grows only by the iterations already in progress,
\* at most one per worker, and not at all when cancellation was signalled
\* before the generator's workers were spawned.
C38_NoGenerationAfterCancel ==
    [][\A s \in Stages : (isGenerator(s) /\ cancelled) =>
          /\ at'[s]["gen"] <= at[s]["gen"]
          /\ generated'[s] + at'[s]["gen"] = generated[s] + at[s]["gen"]
          /\ at[s]["gen"] <= RoutineNum[s]
          /\ Workers(s) = 0 => generated'[s] + at'[s]["gen"] = 0]_vars

C38_Witness ==
    \E s \in Stages :
        /\ isGenerator(s)
        /\ cancelled
        /\ RoutineNum[s] >= 2
        /\ generated[s] >= 1
        /\ at[s]["gen"] >= 1

\* C39: an AddStage called from another goroutine while Start runs completes
\* only after Start has returned, leaves the stage list of the running
\* pipeline as it is, and never keeps Start from returning: once the quit
\* signal has been received the reporter runs, whatever the presentation
\* choice.
C39_AddStageWaitsForStart ==
    /\ startHoldsLock => (writer # "done" /\ stages = <<"generator", "worker", "sink">>)
    /\ mainpc = "report" => ENABLED report

====
